---- MODULE Spec2Model ----
(***************************************************************************)
(* terra-appstream-helper: the three-way merge pipeline of main(), the     *)
(* baseline synthesizer stage2_metainfo(), and prep_component() (default   *)
(* icon, release entry, nightly/git variant suffixing, buildroot scan).    *)
(*                                                                         *)
(* Text is modelled by TLA+ strings, on which Len, \o and SubSeq act as on *)
(* sequences of characters.  A component document is a record with one     *)
(* field per element kind; a field holds the sequence of the elements of   *)
(* that kind, in document order (<<>> when the element is absent).         *)
(***************************************************************************)
EXTENDS Integers, Sequences, FiniteSets, Bags, TLC

VARIABLES
    env,          \* the environment variables read with os.getenv
    fs,           \* the regular files under RPM_BUILD_ROOT
    override,     \* what --override names: NoFile, MissingFile, Malformed or a document
    existing,     \* what find_existing_metainfo finds: NoFile, Malformed or a document
    base_root,    \* the accumulating document (base_root / xml_root)
    stage2_root,  \* the synthesized baseline, once stage2_metainfo has returned
    pc,           \* position in main() / prep_component()
    completed,    \* the pipeline steps that have returned, in order
    error,        \* the call that raised, when the run aborted
    output,       \* what has been written to the destination or to stdout
    remaining,    \* files os.walk has not yielded yet in the current scan
    cur,          \* the file of the current loop iteration (dirpath, filename)
    scans,        \* number of prep_component calls started on base_root
    start_doc,    \* base_root as it was when the current walk or repetition began
    applied       \* number of times the operation under repetition was applied

vars == <<env, fs, override, existing, base_root, stage2_root, pc, completed,
          error, output, remaining, cur, scans, start_doc, applied>>

-----------------------------------------------------------------------------
(* Python values and string methods *)

\* os.getenv of an unset variable, and the text of an element without text
None == "<None>"

\* truth value of an Optional[str]: None and "" are false
Truthy(s) == s # None /\ s # ""

\* str.endswith
EndsWith(s, suffix) ==
    /\ Len(suffix) <= Len(s)
    /\ SubSeq(s, Len(s) - Len(suffix) + 1, Len(s)) = suffix

\* str.startswith
StartsWith(s, prefix) ==
    /\ Len(prefix) <= Len(s)
    /\ SubSeq(s, 1, Len(prefix)) = prefix

\* the `in` operator on two strings
Contains(sub, s) ==
    \E i \in 1..(Len(s) - Len(sub) + 1) : SubSeq(s, i, i + Len(sub) - 1) = sub

LowerChar(c) ==
    CASE c = "A" -> "a" [] c = "B" -> "b" [] c = "C" -> "c" [] c = "D" -> "d"
      [] c = "E" -> "e" [] c = "F" -> "f" [] c = "G" -> "g" [] c = "H" -> "h"
      [] c = "I" -> "i" [] c = "J" -> "j" [] c = "K" -> "k" [] c = "L" -> "l"
      [] c = "M" -> "m" [] c = "N" -> "n" [] c = "O" -> "o" [] c = "P" -> "p"
      [] c = "Q" -> "q" [] c = "R" -> "r" [] c = "S" -> "s" [] c = "T" -> "t"
      [] c = "U" -> "u" [] c = "V" -> "v" [] c = "W" -> "w" [] c = "X" -> "x"
      [] c = "Y" -> "y" [] c = "Z" -> "z" [] OTHER -> c

\* str.lower
RECURSIVE Lower(_)
Lower(s) ==
    IF s = "" THEN ""
    ELSE LowerChar(SubSeq(s, 1, 1)) \o Lower(SubSeq(s, 2, Len(s)))

\* str.strip
RECURSIVE Strip(_)
Strip(s) ==
    IF s = "" THEN ""
    ELSE IF SubSeq(s, 1, 1) = " " THEN Strip(SubSeq(s, 2, Len(s)))
    ELSE IF SubSeq(s, Len(s), Len(s)) = " " THEN Strip(SubSeq(s, 1, Len(s) - 1))
    ELSE s

\* os.path.join of two components
os_path_join(a, b) ==
    IF StartsWith(b, "/") THEN b
    ELSE IF a = "" \/ EndsWith(a, "/") THEN a \o b
    ELSE a \o "/" \o b

-----------------------------------------------------------------------------
(* Component documents *)

SingletonFields ==
    {"type", "id", "name", "summary", "description", "metadata_license",
     "project_license", "icon", "developer"}

\* ET.Element("component")
EmptyComponent ==
    [type |-> <<>>, id |-> <<>>, name |-> <<>>, summary |-> <<>>,
     description |-> <<>>, metadata_license |-> <<>>, project_license |-> <<>>,
     icon |-> <<>>, developer |-> <<>>, url |-> <<>>, releases |-> <<>>,
     provides |-> <<>>, launchable |-> <<>>]

Range(seq) == {seq[i] : i \in 1..Len(seq)}

-----------------------------------------------------------------------------
(* util.py *)

icon_type_map ==
    ("runtime" :> "application-x-executable") @@
    ("console-application" :> "terminal") @@
    ("addon" :> "package") @@
    ("icon-theme" :> "preferences-desktop-theme") @@
    ("codec" :> "multimedia-codec") @@
    ("driver" :> "computer") @@
    ("repository" :> "folder")

\* the icon element for a component type, <<>> for None
get_icon_from_type(component_type) ==
    IF component_type \in DOMAIN icon_type_map
    THEN << [type |-> "stock", text |-> icon_type_map[component_type]] >>
    ELSE <<>>

\* fault injection: the configured type is looked up as it is, without the fallback
Stage2IconType_NoFallback(component_type) == component_type

\* the component type stage2_metainfo looks the icon up with
Stage2IconType(component_type) ==
    IF Truthy(component_type) THEN component_type ELSE "console-application"

\* fault injection: a missing application id is not treated as an error
stage2_never_raises(e) == FALSE

\* stage2_metainfo raises EnvironmentError
stage2_raises(e) == ~Truthy(e.APPSTREAM_APPID)

Stage2Id(app_id, pkgname) ==
    IF Truthy(pkgname) /\ EndsWith(pkgname, "-nightly") THEN app_id \o "-nightly"
    ELSE IF Truthy(pkgname) /\ EndsWith(pkgname, "-git") THEN app_id \o "-git"
    ELSE app_id

Stage2Urls(url) ==
    IF ~Truthy(url) THEN <<>>
    ELSE << [type |-> "homepage", text |-> url] >> \o
         (IF EndsWith(url, ".git") \/ Contains("github.com", url)
               \/ Contains("gitlab.com", url)
          THEN << [type |-> "vcs-browser", text |-> url] >>
          ELSE <<>>)

\* the template element stage2_metainfo returns when it does not raise
stage2_metainfo(e) ==
    [EmptyComponent EXCEPT
        !.metadata_license = <<"CC0-1.0">>,
        !.type = IF Truthy(e.APPSTREAM_COMPONENT_TYPE)
                 THEN <<e.APPSTREAM_COMPONENT_TYPE>> ELSE <<>>,
        !.name = IF Truthy(e.APPSTREAM_NAME_PRETTY)
                 THEN <<e.APPSTREAM_NAME_PRETTY>> ELSE <<e.RPM_PACKAGE_NAME>>,
        !.icon = get_icon_from_type(Stage2IconType(e.APPSTREAM_COMPONENT_TYPE)),
        !.id = IF Truthy(e.APPSTREAM_APPID)
               THEN <<Stage2Id(e.APPSTREAM_APPID, e.RPM_PACKAGE_NAME)>> ELSE <<>>,
        !.project_license = IF Truthy(e.APPSTREAM_LICENSE)
                            THEN <<e.APPSTREAM_LICENSE>> ELSE <<>>,
        !.url = Stage2Urls(e.APPSTREAM_URL),
        !.summary = IF Truthy(e.APPSTREAM_SUMMARY)
                    THEN <<e.APPSTREAM_SUMMARY>> ELSE <<>>,
        !.description = IF Truthy(e.APPSTREAM_DESCRIPTION)
                        THEN <<e.APPSTREAM_DESCRIPTION>>
                        ELSE IF Truthy(e.APPSTREAM_SUMMARY)
                        THEN <<e.APPSTREAM_SUMMARY>> ELSE <<>>,
        !.developer = IF Truthy(e.APPSTREAM_DEVELOPER_NAME)
                      THEN << [id |-> IF Truthy(e.APPSTREAM_DEVELOPER_ORG_NAME)
                                      THEN e.APPSTREAM_DEVELOPER_ORG_NAME
                                      ELSE IF Truthy(e.APPSTREAM_APPID)
                                      THEN e.APPSTREAM_APPID
                                      ELSE "com.example"] >>
                      ELSE <<>>]

-----------------------------------------------------------------------------
(* xmlutil.merge_xml: the Merge Engine.  Singleton elements and the root's *)
(* type attribute are adopted from source only where target has none;      *)
(* url entries are keyed by type and release entries by version; provides  *)
(* and launchable entries of source are appended.                          *)

\* fault injection: keyed entries of source are appended whatever target holds
MergeKeyed_AppendAll(target, source, key) == target \o source

RECURSIVE MergeKeyed(_, _, _)
MergeKeyed(target, source, key) ==
    IF source = <<>> THEN target
    ELSE LET entry == Head(source)
             present == \E i \in 1..Len(target) : target[i][key] = entry[key]
         IN MergeKeyed(IF present THEN target ELSE Append(target, entry),
                       Tail(source), key)

\* what merge does to the unkeyed collections
MergeUnkeyed(target, source) == target \o source

merge_xml(target, source) ==
    [f \in DOMAIN target |->
        IF f \in SingletonFields
        THEN (IF target[f] # <<>> THEN target[f] ELSE source[f])
        ELSE IF f = "url" THEN MergeKeyed(target.url, source.url, "type")
        ELSE IF f = "releases"
        THEN MergeKeyed(target.releases, source.releases, "version")
        ELSE MergeUnkeyed(target[f], source[f])]

-----------------------------------------------------------------------------
(* __init__.py: prep_component *)

\* fault injection: an entry equal to the last provides entry is skipped
append_provides_element_SkipRepeat(xml_root, element_type, element_value) ==
    IF /\ xml_root.provides # <<>>
       /\ xml_root.provides[Len(xml_root.provides)] =
              [type |-> element_type, text |-> element_value]
    THEN xml_root
    ELSE [xml_root EXCEPT
            !.provides = Append(@, [type |-> element_type, text |-> element_value])]

\* append_provides_element
append_provides_element(xml_root, element_type, element_value) ==
    [xml_root EXCEPT
        !.provides = Append(@, [type |-> element_type, text |-> element_value])]

\* lines 91-95: the default icon, only when the document has none
PrepIcon(xml_root, e) ==
    IF xml_root.icon # <<>> THEN xml_root
    ELSE LET component_type ==
                 IF xml_root.type # <<>> /\ Truthy(xml_root.type[1])
                 THEN xml_root.type[1]
                 ELSE e.APPSTREAM_COMPONENT_TYPE
         IN [xml_root EXCEPT !.icon = get_icon_from_type(component_type)]

\* lines 98-106: a release entry for the package version
PrepRelease(xml_root, e) ==
    LET rpm_version == IF e.RPM_PACKAGE_VERSION = None THEN "unknown"
                       ELSE e.RPM_PACKAGE_VERSION
    IN IF \E i \in 1..Len(xml_root.releases) :
              xml_root.releases[i].version = rpm_version
       THEN xml_root
       ELSE [xml_root EXCEPT !.releases = Append(@, [version |-> rpm_version])]

\* the channel markers with their (id-suffix, name-suffix), in dict order
release_suffixes ==
    << [suffix |-> "-nightly", id |-> "-nightly", name |-> " (Nightly)"],
       [suffix |-> "-git", id |-> "-git", name |-> " (Git Development Build)"] >>

\* lines 127-138: the accepted spellings of a name-suffix
suffix_variants(raw_suffix) ==
    LET stripped_suffix == Lower(Strip(raw_suffix))
        inner_suffix == Strip(SubSeq(stripped_suffix, 2, Len(stripped_suffix) - 1))
    IN {Lower(raw_suffix)}
       \cup (IF stripped_suffix # "" THEN {stripped_suffix} ELSE {})
       \cup (IF /\ stripped_suffix # ""
                /\ StartsWith(stripped_suffix, "(")
                /\ EndsWith(stripped_suffix, ")")
                /\ inner_suffix # ""
             THEN {inner_suffix, " " \o inner_suffix}
             ELSE {})

\* fault injection: the id-suffix is appended without looking at the id
AdjustId_NoCheck(base_app_id, id_suffix) == base_app_id \o id_suffix

\* lines 119-122: the id text after adjustment
AdjustId(base_app_id, id_suffix) ==
    IF ~EndsWith(Lower(base_app_id), Lower(id_suffix))
    THEN base_app_id \o id_suffix
    ELSE base_app_id

\* fault injection: the accepted spellings are looked for at the start of the name
AdjustName_StartsWith(base_name, raw_suffix) ==
    IF ~\E variant \in suffix_variants(raw_suffix) :
            StartsWith(Lower(base_name), variant)
    THEN base_name \o raw_suffix
    ELSE base_name

\* lines 125-143: the name text after adjustment
AdjustName(base_name, raw_suffix) ==
    IF ~\E variant \in suffix_variants(raw_suffix) :
            EndsWith(Lower(base_name), variant)
    THEN base_name \o raw_suffix
    ELSE base_name

\* lines 115-143: one iteration of the loop over release_suffixes
AdjustForSuffix(xml_root, pkgname, rs) ==
    IF ~EndsWith(pkgname, rs.suffix) THEN xml_root
    ELSE [xml_root EXCEPT
            !.id = IF @ # <<>> /\ @[1] # None
                   THEN <<AdjustId(@[1], rs.id)>> \o Tail(@) ELSE @,
            !.name = IF @ # <<>> /\ @[1] # None
                     THEN <<AdjustName(@[1], rs.name)>> \o Tail(@) ELSE @]

\* lines 109-155: the Variant Adjuster
adjustForVariant(xml_root, pkgname) ==
    AdjustForSuffix(AdjustForSuffix(xml_root, pkgname, release_suffixes[1]),
                    pkgname, release_suffixes[2])

\* lines 91-155: prep_component up to the walk
PrepHead(xml_root, e) ==
    LET pkgname == IF e.RPM_PACKAGE_NAME = None THEN "" ELSE e.RPM_PACKAGE_NAME
    IN adjustForVariant(PrepRelease(PrepIcon(xml_root, e), e), pkgname)

\* fault injection: the launchable is appended without the existence check
AppendLaunchableOnce_NoCheck(xml_root, launch_type, filename) ==
    [xml_root EXCEPT
        !.launchable = Append(@, [type |-> launch_type, text |-> filename])]

\* lines 173-187 and 189-203: a launchable is appended unless one with the same
\* type and text is already a child of the root
AppendLaunchableOnce(xml_root, launch_type, filename) ==
    IF \E i \in 1..Len(xml_root.launchable) :
          /\ xml_root.launchable[i].type = launch_type
          /\ xml_root.launchable[i].text = filename
    THEN xml_root
    ELSE [xml_root EXCEPT
            !.launchable = Append(@, [type |-> launch_type, text |-> filename])]

InLibDir(path) == Contains("usr/lib", path) \/ Contains("usr/lib64", path)

\* lines 162-165: the first if statement of the loop body
ScanSharedLibrary(xml_root, path, filename) ==
    IF (EndsWith(filename, ".so") \/ Contains(".so.", filename)) /\ InLibDir(path)
    THEN append_provides_element(xml_root, "library", filename)
    ELSE xml_root

\* lines 166-203: the second if statement with its elif branches
ScanChain(xml_root, path, filename, executable) ==
    IF (EndsWith(filename, ".dll") \/ EndsWith(filename, ".lib")) /\ InLibDir(path)
    THEN append_provides_element(xml_root, "library", filename)
    ELSE IF executable /\ Contains("usr/bin", path)
    THEN append_provides_element(xml_root, "binary", filename)
    ELSE IF Contains("usr/share/applications", path) /\ EndsWith(filename, ".desktop")
    THEN AppendLaunchableOnce(xml_root, "desktop-id", filename)
    ELSE IF Contains("usr/lib/systemd/system", path) /\ EndsWith(filename, ".service")
    THEN AppendLaunchableOnce(xml_root, "service", filename)
    ELSE xml_root

\* lines 160-203: the loop body for one file; f.dir is the file's directory
\* relative to the buildroot, f.x is os.access(path, os.X_OK)
ScanFile(xml_root, buildroot, f) ==
    LET dirpath == IF f.dir = "" THEN buildroot ELSE os_path_join(buildroot, f.dir)
        path == os_path_join(dirpath, f.name)
    IN ScanChain(ScanSharedLibrary(xml_root, path, f.name), path, f.name, f.x)

-----------------------------------------------------------------------------
(* __init__.py: main *)

NoFile == [kind |-> "none", doc |-> EmptyComponent]
MissingFile == [kind |-> "missing", doc |-> EmptyComponent]
Malformed == [kind |-> "malformed", doc |-> EmptyComponent]
Document(d) == [kind |-> "doc", doc |-> d]

NoCur == [dir |-> "", name |-> "", x |-> FALSE]

\* fault injection: the existing document is preferred to the override
ChooseBaseRoot_ExistingFirst(override_root, existing_root) ==
    IF existing_root.kind = "doc" THEN existing_root.doc
    ELSE IF override_root.kind = "doc" THEN override_root.doc
    ELSE EmptyComponent

\* lines 255-260: the document that becomes base_root
ChooseBaseRoot(override_root, existing_root) ==
    IF override_root.kind = "doc" THEN override_root.doc
    ELSE IF existing_root.kind = "doc" THEN existing_root.doc
    ELSE EmptyComponent

Abort(what) ==
    /\ pc' = "aborted"
    /\ error' = what

\* lines 59-61: the module raises at import when RPM_BUILD_ROOT is unset
ModuleInit ==
    /\ pc = "import"
    /\ IF env.RPM_BUILD_ROOT = None
       THEN Abort("RPM_BUILD_ROOT")
       ELSE pc' = "load_override" /\ UNCHANGED error
    /\ UNCHANGED <<env, fs, override, existing, base_root, stage2_root, completed,
                   output, remaining, cur, scans, start_doc, applied>>

\* lines 236-246: the override file is checked and parsed
LoadOverride ==
    /\ pc = "load_override"
    /\ IF override.kind = "missing" THEN Abort("FileNotFoundError")
       ELSE IF override.kind = "malformed" THEN Abort("load_xml_document")
       ELSE pc' = "load_existing" /\ UNCHANGED error
    /\ UNCHANGED <<env, fs, override, existing, base_root, stage2_root, completed,
                   output, remaining, cur, scans, start_doc, applied>>

\* lines 248-253: the existing metainfo file, if one is found, is parsed
LoadExisting ==
    /\ pc = "load_existing"
    /\ IF existing.kind = "malformed" THEN Abort("load_xml_document")
       ELSE pc' = "choose_base" /\ UNCHANGED error
    /\ UNCHANGED <<env, fs, override, existing, base_root, stage2_root, completed,
                   output, remaining, cur, scans, start_doc, applied>>

\* lines 255-260
ChooseBase ==
    /\ pc = "choose_base"
    /\ base_root' = ChooseBaseRoot(override, existing)
    /\ pc' = "merge_existing"
    /\ UNCHANGED <<env, fs, override, existing, stage2_root, completed, error,
                   output, remaining, cur, scans, start_doc, applied>>

\* lines 262-263: the existing document is merged into the override
MergeExisting ==
    /\ pc = "merge_existing"
    /\ IF override.kind = "doc" /\ existing.kind = "doc"
       THEN /\ base_root' = merge_xml(base_root, existing.doc)
            /\ completed' = Append(completed, "merge_existing")
       ELSE UNCHANGED <<base_root, completed>>
    /\ pc' = "stage2"
    /\ UNCHANGED <<env, fs, override, existing, stage2_root, error, output,
                   remaining, cur, scans, start_doc, applied>>

\* line 265: stage2_metainfo()
Synthesize ==
    /\ pc = "stage2"
    /\ IF stage2_raises(env)
       THEN Abort("stage2_metainfo") /\ UNCHANGED <<stage2_root, completed>>
       ELSE /\ stage2_root' = Document(stage2_metainfo(env))
            /\ completed' = Append(completed, "synthesize")
            /\ pc' = "merge_stage2"
            /\ UNCHANGED error
    /\ UNCHANGED <<env, fs, override, existing, base_root, output, remaining, cur,
                   scans, start_doc, applied>>

\* line 266: the baseline is merged in as the lowest layer
MergeBaseline ==
    /\ pc = "merge_stage2"
    /\ base_root' = merge_xml(base_root, stage2_root.doc)
    /\ completed' = Append(completed, "merge_stage2")
    /\ pc' = "prep"
    /\ UNCHANGED <<env, fs, override, existing, stage2_root, error, output,
                   remaining, cur, scans, start_doc, applied>>

\* line 268 and lines 87-158: prep_component is entered and runs up to the walk
PrepBegin ==
    /\ pc = "prep"
    /\ base_root' = PrepHead(base_root, env)
    /\ completed' = Append(completed, "adjust")
    /\ start_doc' = base_root'
    /\ remaining' = fs
    /\ scans' = scans + 1
    /\ pc' = "walk"
    /\ UNCHANGED <<env, fs, override, existing, stage2_root, error, output, cur,
                   applied>>

\* lines 158-203: one iteration of the walk; os.walk yields the files in no
\* particular order
Visit ==
    /\ pc = "walk"
    /\ \E f \in remaining :
        /\ base_root' = ScanFile(base_root, env.RPM_BUILD_ROOT, f)
        /\ remaining' = remaining \ {f}
        /\ cur' = f
    /\ UNCHANGED <<env, fs, override, existing, stage2_root, pc, completed, error,
                   output, scans, start_doc, applied>>

\* the walk is exhausted and prep_component returns to main
PrepReturn ==
    /\ pc = "walk"
    /\ remaining = {}
    /\ completed' = Append(completed, "scan")
    /\ pc' = "write"
    /\ UNCHANGED <<env, fs, override, existing, base_root, stage2_root, error,
                   output, remaining, cur, scans, start_doc, applied>>

\* lines 270-276: the tree is written to the destination or to stdout
Write ==
    /\ pc = "write"
    /\ output' = Document(base_root)
    /\ pc' = "done"
    /\ UNCHANGED <<env, fs, override, existing, base_root, stage2_root, completed,
                   error, remaining, cur, scans, start_doc, applied>>

-----------------------------------------------------------------------------
(* The runs of main: inputs *)

File(dir, name, x) == [dir |-> dir, name |-> name, x |-> x]

BaseEnv ==
    [APPSTREAM_APPID |-> "org.example.App",
     APPSTREAM_LICENSE |-> "MIT",
     APPSTREAM_SUMMARY |-> "A tool",
     APPSTREAM_DESCRIPTION |-> None,
     APPSTREAM_URL |-> "https://github.com/example/app",
     APPSTREAM_DEVELOPER_NAME |-> "Dev",
     APPSTREAM_DEVELOPER_ORG_NAME |-> None,
     APPSTREAM_COMPONENT_TYPE |-> "console-application",
     APPSTREAM_NAME_PRETTY |-> None,
     RPM_PACKAGE_NAME |-> "app",
     RPM_PACKAGE_VERSION |-> "1.0",
     RPM_BUILD_ROOT |-> "/builddir/BUILDROOT"]

MainEnvs ==
    { [BaseEnv EXCEPT !.APPSTREAM_APPID = a, !.RPM_PACKAGE_NAME = p,
                      !.APPSTREAM_NAME_PRETTY = n, !.APPSTREAM_COMPONENT_TYPE = t] :
        a \in {None, "org.example.App", "org.example.Tool-nightly"},
        p \in {None, "app", "app-nightly", "app-git"},
        n \in {None, "Something Else"},
        t \in {None, "console-application", "desktop-application"} }
    \cup { [BaseEnv EXCEPT !.RPM_BUILD_ROOT = None, !.APPSTREAM_APPID = a] :
             a \in {None, "org.example.App"} }

OverrideCustom == [EmptyComponent EXCEPT !.name = <<"Custom">>]

OverrideFull ==
    [EmptyComponent EXCEPT
        !.type = <<"desktop-application">>,
        !.id = <<"org.override.App">>,
        !.name = <<"Custom App Nightly">>,
        !.summary = <<"Override summary">>,
        !.icon = << [type |-> "stock", text |-> "custom-icon"] >>,
        !.url = << [type |-> "homepage", text |-> "https://override.example"] >>,
        !.provides = << [type |-> "binary", text |-> "app"] >>,
        !.launchable = << [type |-> "desktop-id", text |-> "app.desktop"] >>]

ExistingDoc ==
    [EmptyComponent EXCEPT
        !.id = <<"org.existing.App">>,
        !.name = <<"Existing">>,
        !.project_license = <<"GPL-3.0">>,
        !.url = << [type |-> "homepage", text |-> "https://existing.example"],
                   [type |-> "bugtracker", text |-> "https://existing.example/bugs"] >>,
        !.releases = << [version |-> "1.0"] >>,
        !.launchable = << [type |-> "service", text |-> "app.service"] >>]

MainOverrides == {NoFile, MissingFile, Malformed, Document(OverrideCustom),
                  Document(OverrideFull)}

MainExistings == {NoFile, Malformed, Document(ExistingDoc)}

MainFiles ==
    {File("usr/bin", "app", TRUE),
     File("usr/lib64", "libfoo.so.1", FALSE),
     File("usr/share/applications", "app.desktop", FALSE)}

Init ==
    /\ env \in MainEnvs
    /\ fs = MainFiles
    /\ override \in MainOverrides
    /\ existing \in MainExistings
    /\ base_root = EmptyComponent
    /\ stage2_root = NoFile
    /\ pc = "import"
    /\ completed = <<>>
    /\ error = None
    /\ output = NoFile
    /\ remaining = {}
    /\ cur = NoCur
    /\ scans = 0
    /\ start_doc = EmptyComponent
    /\ applied = 0

Next ==
    \/ ModuleInit
    \/ LoadOverride
    \/ LoadExisting
    \/ ChooseBase
    \/ MergeExisting
    \/ Synthesize
    \/ MergeBaseline
    \/ PrepBegin
    \/ Visit
    \/ PrepReturn
    \/ Write

Spec == Init /\ [][Next]_vars

-----------------------------------------------------------------------------
(* Claims about the runs of main (specification Spec) *)

Layer(l) ==
    IF l = "override" THEN override
    ELSE IF l = "existing" THEN existing
    ELSE stage2_root

Supplies(l, f) == Layer(l).kind = "doc" /\ Layer(l).doc[f] # <<>>

Suppliers(f) == {l \in {"override", "existing", "stage2"} : Supplies(l, f)}

\* the value of the highest-precedence layer that supplies f
Top(f) ==
    IF Supplies("override", f) THEN override.doc[f]
    ELSE IF Supplies("existing", f) THEN existing.doc[f]
    ELSE stage2_root.doc[f]

Written == output.kind = "doc"

PackageName == IF env.RPM_PACKAGE_NAME = None THEN "" ELSE env.RPM_PACKAGE_NAME

\* what the variant suffixing makes of an id text for this package name
SuffixedId(t) ==
    IF EndsWith(PackageName, "-nightly") /\ ~EndsWith(Lower(t), "-nightly")
    THEN t \o "-nightly"
    ELSE IF EndsWith(PackageName, "-git") /\ ~EndsWith(Lower(t), "-git")
    THEN t \o "-git"
    ELSE t

\* what the variant suffixing makes of a name text for this package name
SuffixedName(t) ==
    IF /\ EndsWith(PackageName, "-nightly")
       /\ ~\E v \in {" (nightly)", "(nightly)", " nightly", "nightly"} :
              EndsWith(Lower(t), v)
    THEN t \o " (Nightly)"
    ELSE IF /\ EndsWith(PackageName, "-git")
            /\ ~\E v \in {" (git development build)", "(git development build)",
                          " git development build", "git development build"} :
                   EndsWith(Lower(t), v)
    THEN t \o " (Git Development Build)"
    ELSE t

\* C1 as stated: in the document handed to the writer, every singleton field
\* that more than one layer supplies carries exactly the value of the
\* highest-precedence layer supplying it (override > existing > baseline).
C1_FinalIsTopLayerValue ==
    Written =>
        \A f \in SingletonFields :
            Cardinality(Suppliers(f)) >= 2 => output.doc[f] = Top(f)

\* C1 amended: the same, except that the id and the name carry the channel
\* suffix the Variant Adjuster appends when the package name ends in -nightly
\* or -git and the value does not already end with it.
C1_FinalIsTopLayerValueUpToVariant ==
    Written =>
        \A f \in SingletonFields :
            Cardinality(Suppliers(f)) >= 2 =>
                IF f = "id" /\ Top(f)[1] # None
                THEN output.doc[f] = <<SuffixedId(Top(f)[1])>>
                ELSE IF f = "name" /\ Top(f)[1] # None
                THEN output.doc[f] = <<SuffixedName(Top(f)[1])>>
                ELSE output.doc[f] = Top(f)

\* C1 witness: the override's name Custom wins over the configured pretty name
\* and over the existing document's name
C1_Witness ==
    /\ Written
    /\ override.kind = "doc" /\ override.doc.name = <<"Custom">>
    /\ existing.kind = "doc" /\ existing.doc.name = <<"Existing">>
    /\ env.APPSTREAM_NAME_PRETTY = "Something Else"
    /\ output.doc.name = <<"Custom">>
    /\ output.doc.id = <<"org.existing.App">>

RequiredSteps ==
    {"synthesize", "merge_stage2", "adjust", "scan"}
    \cup (IF override.kind = "doc" /\ existing.kind = "doc"
          THEN {"merge_existing"} ELSE {})

AppIdConfigured == Truthy(env.APPSTREAM_APPID)

\* C2 as stated: output is written only after every step has completed, and a
\* run without an application id never writes and, when it has aborted, has
\* aborted in the synthesizer.
C2_AbortsInSynthesizer ==
    /\ Written => RequiredSteps \subseteq Range(completed)
    /\ ~AppIdConfigured => ~Written
    /\ (~AppIdConfigured /\ pc = "aborted") => error = "stage2_metainfo"

\* C2 amended: output is written only after synthesize, the merges, the
\* variant adjustment and the scan have completed; a run without an
\* application id never gets past the synthesizer and never writes: it aborts
\* in the synthesizer unless an unset RPM_BUILD_ROOT, a missing override file
\* or a malformed document aborted it before.
C2_NoOutputBeforePipelineCompletes ==
    /\ Written => /\ RequiredSteps \subseteq Range(completed)
                  /\ remaining = {}
                  /\ AppIdConfigured
    /\ ~AppIdConfigured =>
          /\ ~Written
          /\ pc \in {"import", "load_override", "load_existing", "choose_base",
                     "merge_existing", "stage2", "aborted"}
          /\ pc = "aborted" =>
                error \in {"stage2_metainfo", "RPM_BUILD_ROOT", "FileNotFoundError",
                          "load_xml_document"}
    /\ (pc = "aborted" /\ error = "stage2_metainfo") => ~AppIdConfigured

\* C2 witness: the override supplies an id, and the run still aborts in the
\* synthesizer without output
C2_Witness ==
    /\ pc = "aborted" /\ error = "stage2_metainfo"
    /\ override.kind = "doc" /\ override.doc.id # <<>>
    /\ existing.kind = "doc" /\ existing.doc.id # <<>>
    /\ ~AppIdConfigured
    /\ ~Written

NightlyFromConfigOnly ==
    /\ Written
    /\ override.kind = "none"
    /\ existing.kind = "none"
    /\ AppIdConfigured
    /\ ~Truthy(env.APPSTREAM_NAME_PRETTY)
    /\ EndsWith(PackageName, "-nightly")

\* C5 as stated: from configuration alone, with a -nightly package name, the
\* final id is the application id followed by one -nightly and the final name
\* ends with " (Nightly)".
C5_NightlyIdAndDisplaySuffix ==
    NightlyFromConfigOnly =>
        /\ output.doc.id = <<env.APPSTREAM_APPID \o "-nightly">>
        /\ EndsWith(output.doc.name[1], " (Nightly)")

\* C5 amended: the final id is the application id followed by one -nightly;
\* the final name is the package name unchanged, which ends with "nightly",
\* an accepted spelling of the display suffix, so " (Nightly)" is not appended.
C5_NightlyIdAndPackageName ==
    NightlyFromConfigOnly =>
        /\ output.doc.id = <<env.APPSTREAM_APPID \o "-nightly">>
        /\ output.doc.name = <<env.RPM_PACKAGE_NAME>>
        /\ EndsWith(Lower(output.doc.name[1]), "nightly")
        /\ ~EndsWith(output.doc.name[1], " (Nightly)")

\* C5 witness: scenario 2 of the specification
C5_Witness ==
    /\ NightlyFromConfigOnly
    /\ env.APPSTREAM_APPID = "org.example.App"
    /\ env.RPM_PACKAGE_NAME = "app-nightly"
    /\ output.doc.id = <<"org.example.App-nightly">>
    /\ output.doc.name = <<"app-nightly">>

-----------------------------------------------------------------------------
(* Repeated scans of one buildroot into one document (specification SpecScan) *)

MaxScans == 2

ScanEnvs ==
    { [BaseEnv EXCEPT !.RPM_BUILD_ROOT = r] :
        r \in {"/builddir/BUILDROOT", "/home/usr/lib-build/root"} }

ScanFsChoices ==
    { {File("usr/bin", "app", TRUE),
       File("usr/lib64", "libfoo.so.1", FALSE),
       File("usr/lib", "libfoo.so.1", FALSE),
       File("usr/share/applications", "app.desktop", FALSE),
       File("usr/lib/systemd/system", "app.service", FALSE)},
      {File("usr/share/applications", "app.desktop", FALSE),
       File("usr/share/applications/kde", "app.desktop", FALSE),
       File("usr/lib/systemd/system", "app.service", FALSE),
       File("usr/lib/systemd/system", "foo.so.service", FALSE),
       File("usr/libexec", "helper.so", TRUE)},
      {File("usr/lib", "x.so.dll", FALSE),
       File("opt/app", "plugin.so", FALSE),
       File("opt/app/usr/bin", "tool", TRUE),
       File("usr/bin", "README", FALSE),
       File("usr/share/applications", "other.desktop", TRUE)} }

\* starting documents; none holds a launchable twice
ScanStartDocs ==
    { [EmptyComponent EXCEPT !.id = <<"org.example.App">>],
      [EmptyComponent EXCEPT
          !.id = <<"org.example.App">>,
          !.launchable = << [type |-> "desktop-id", text |-> "app.desktop"] >>],
      [EmptyComponent EXCEPT
          !.id = <<"org.example.App">>,
          !.name = <<"App">>,
          !.provides = << [type |-> "binary", text |-> "app"] >>,
          !.launchable = << [type |-> "service", text |-> "app.service"],
                            [type |-> "desktop-id", text |-> "other.desktop"] >>] }

InitScan ==
    /\ env \in ScanEnvs
    /\ fs \in ScanFsChoices
    /\ override = NoFile
    /\ existing = NoFile
    /\ base_root \in ScanStartDocs
    /\ stage2_root = NoFile
    /\ pc = "prep"
    /\ completed = <<>>
    /\ error = None
    /\ output = NoFile
    /\ remaining = {}
    /\ cur = NoCur
    /\ scans = 0
    /\ start_doc = base_root
    /\ applied = 0

\* prep_component is called on the same document again
Rescan ==
    /\ pc = "write"
    /\ scans < MaxScans
    /\ pc' = "prep"
    /\ UNCHANGED <<env, fs, override, existing, base_root, stage2_root, completed,
                   error, output, remaining, cur, scans, start_doc, applied>>

NextScan ==
    \/ PrepBegin
    \/ Visit
    \/ PrepReturn
    \/ Rescan

SpecScan == InitScan /\ [][NextScan]_vars

\* C3: however often the buildroot is scanned into a document that starts
\* without duplicate launchables, no two launchable entries of the document
\* have the same (type, value), for desktop-id and for service entries.
C3_NoDuplicateLaunchables ==
    \A i, j \in 1..Len(base_root.launchable) :
        i # j => base_root.launchable[i] # base_root.launchable[j]

\* C3 witness: a second scan has visited a desktop entry and a service unit
\* whose launchables the first scan had entered
C3_Witness ==
    /\ scans = 2 /\ pc = "write"
    /\ File("usr/share/applications/kde", "app.desktop", FALSE) \in fs
    /\ [type |-> "desktop-id", text |-> "app.desktop"] \in Range(base_root.launchable)
    /\ [type |-> "service", text |-> "foo.so.service"] \in Range(base_root.launchable)
    /\ start_doc.launchable = base_root.launchable

\* a step of the walk: one file has been visited
VisitStep == pc = "walk" /\ pc' = "walk" /\ remaining' # remaining

EntriesOf(doc) == Len(doc.provides) + Len(doc.launchable)

\* C8: every visited file contributes at most one entry (one provides entry
\* or one launchable entry) to the document.
C8_AtMostOneEntryPerFile ==
    [][VisitStep => EntriesOf(base_root') <= EntriesOf(base_root) + 1]_vars

\* the directory dir (relative to the scanned root) is d or lies under d
Under(dir, d) == dir = d \/ StartsWith(dir, d \o "/")

\* C9: a library entry is appended only for a file under usr/lib or
\* usr/lib64 of the scanned root, a binary entry only for an executable file
\* under usr/bin of the scanned root.
C9_ProvidesOnlyFromCanonicalDirs ==
    [][VisitStep =>
        \A i \in (Len(base_root.provides) + 1)..Len(base_root'.provides) :
            LET e == base_root'.provides[i] IN
            /\ e.type = "library" =>
                  Under(cur'.dir, "usr/lib") \/ Under(cur'.dir, "usr/lib64")
            /\ e.type = "binary" => cur'.x /\ Under(cur'.dir, "usr/bin")]_vars

\* the files of a set in one fixed order
RECURSIVE ScanInOrder(_, _, _)
ScanInOrder(doc, buildroot, files) ==
    IF files = {} THEN doc
    ELSE LET f == CHOOSE g \in files : TRUE
         IN ScanInOrder(ScanFile(doc, buildroot, f), buildroot, files \ {f})

BagOfSeq(seq) ==
    [e \in Range(seq) |-> Cardinality({i \in 1..Len(seq) : seq[i] = e})]

\* C10: whatever order the walk visits the files in, the document it leaves
\* has the same provides entries with the same multiplicities and the same
\* launchable entries as the walk in one fixed order; nothing else differs.
C10_VisitOrderIrrelevant ==
    pc = "write" =>
        LET fixed == ScanInOrder(start_doc, env.RPM_BUILD_ROOT, fs) IN
        /\ BagOfSeq(base_root.provides) = BagOfSeq(fixed.provides)
        /\ BagOfSeq(base_root.launchable) = BagOfSeq(fixed.launchable)
        /\ \A f \in DOMAIN base_root \ {"provides", "launchable"} :
              base_root[f] = fixed[f]

\* C10 witness: a walk that ended with the provides entries in another order
\* than the fixed one
C10_Witness ==
    /\ pc = "write"
    /\ Len(base_root.provides) >= 3
    /\ Len(base_root.launchable) >= 2
    /\ base_root.provides #
          ScanInOrder(start_doc, env.RPM_BUILD_ROOT, fs).provides

-----------------------------------------------------------------------------
(* The Variant Adjuster applied repeatedly (specification SpecAdjust) *)

MaxApplications == 3

AdjustIds ==
    { <<>>, <<None>>, <<"">>, <<"org.example.App">>, <<"org.example.App-nightly">>,
      <<"org.example.App-NIGHTLY">>, <<"org.example.App-git">>,
      <<"org.example.nightly">>, <<"-Git">> }

AdjustNames ==
    { <<>>, <<None>>, <<"">>, <<"App">>, <<"App (Nightly)">>, <<"App Nightly">>,
      <<"App(NIGHTLY)">>, <<"app-nightly">>, <<"Nightly App">>, <<"App (Nightly) ">>,
      <<"App (Git Development Build)">>, <<"App git development build">>,
      <<"app-git">> }

ChannelPackageNames == {"app-nightly", "app-git", "app-git-nightly", "-git"}

InitAdjust ==
    /\ env \in {[BaseEnv EXCEPT !.RPM_PACKAGE_NAME = p] : p \in ChannelPackageNames}
    /\ fs = {}
    /\ override = NoFile
    /\ existing = NoFile
    /\ \E i \in AdjustIds, n \in AdjustNames :
          base_root = [EmptyComponent EXCEPT !.id = i, !.name = n]
    /\ stage2_root = NoFile
    /\ pc = "adjust"
    /\ completed = <<>>
    /\ error = None
    /\ output = NoFile
    /\ remaining = {}
    /\ cur = NoCur
    /\ scans = 0
    /\ start_doc = base_root
    /\ applied = 0

\* lines 109-155 run on the document once more
ApplyAdjust ==
    /\ pc = "adjust"
    /\ applied < MaxApplications
    /\ base_root' = adjustForVariant(base_root, PackageName)
    /\ applied' = applied + 1
    /\ UNCHANGED <<env, fs, override, existing, stage2_root, pc, completed, error,
                   output, remaining, cur, scans, start_doc>>

SpecAdjust == InitAdjust /\ [][ApplyAdjust]_vars

IdSuffixes == {rs.id : rs \in Range(release_suffixes)}

NameSuffixes == {rs.name : rs \in Range(release_suffixes)}

\* C4: for a package name ending in -nightly or -git, the first application
\* of the Variant Adjuster appends the id-suffix and the name-suffix at most
\* once each, and every further application leaves the id and the name as
\* the first one left them.
C4_VariantAdjustIdempotent ==
    [][applied' = applied + 1 =>
         IF applied = 0
         THEN /\ \/ base_root'.id = base_root.id
                 \/ \E x \in IdSuffixes :
                       base_root'.id = <<base_root.id[1] \o x>>
              /\ \/ base_root'.name = base_root.name
                 \/ \E x \in NameSuffixes :
                       base_root'.name = <<base_root.name[1] \o x>>
         ELSE base_root' = base_root]_vars

\* C4 witness: applied twice to a document whose id and name both needed the
\* nightly suffix, which each carry once
C4_Witness ==
    /\ applied = 2
    /\ env.RPM_PACKAGE_NAME = "app-nightly"
    /\ start_doc.id = <<"org.example.App">>
    /\ start_doc.name = <<"App">>
    /\ base_root.id = <<"org.example.App-nightly">>
    /\ base_root.name = <<"App (Nightly)">>

-----------------------------------------------------------------------------
(* The synthesizer over the configured component types (specification SpecSynth) *)

SynthEnvs ==
    { [BaseEnv EXCEPT !.APPSTREAM_COMPONENT_TYPE = t, !.APPSTREAM_APPID = a,
                      !.RPM_PACKAGE_NAME = p, !.APPSTREAM_NAME_PRETTY = n,
                      !.APPSTREAM_URL = u] :
        t \in DOMAIN icon_type_map
              \cup {None, "", "desktop-application", "library", "Runtime"},
        a \in {None, "", "org.example.App"},
        p \in {None, "app", "app-git"},
        n \in {None, "App"},
        u \in {None, "https://example.org/app.git"} }

InitSynth ==
    /\ env \in SynthEnvs
    /\ fs = {}
    /\ override = NoFile
    /\ existing = NoFile
    /\ base_root = EmptyComponent
    /\ stage2_root = NoFile
    /\ pc = "stage2"
    /\ completed = <<>>
    /\ error = None
    /\ output = NoFile
    /\ remaining = {}
    /\ cur = NoCur
    /\ scans = 0
    /\ start_doc = EmptyComponent
    /\ applied = 0

SpecSynth == InitSynth /\ [][Synthesize]_vars

StockIcon(t) == << [type |-> "stock", text |-> icon_type_map[t]] >>

\* C6 as stated: the baseline holds an icon exactly when the configured
\* component type is a key of the lookup table, and then the stock icon the
\* table gives for it; without a configured type there is no icon.
C6_IconIffConfiguredTypeInTable ==
    stage2_root.kind = "doc" =>
        LET t == env.APPSTREAM_COMPONENT_TYPE IN
        IF t \in DOMAIN icon_type_map
        THEN stage2_root.doc.icon = StockIcon(t)
        ELSE stage2_root.doc.icon = <<>>

\* C6 amended: the type looked up is the configured component type, or
\* console-application when none (or an empty one) is configured; the
\* baseline holds an icon exactly when that type is a key of the table, and
\* then the stock icon the table gives for it.
C6_IconIffEffectiveTypeInTable ==
    stage2_root.kind = "doc" =>
        LET t == env.APPSTREAM_COMPONENT_TYPE IN
        IF t = None \/ t = ""
        THEN stage2_root.doc.icon = << [type |-> "stock", text |-> "terminal"] >>
        ELSE IF t \in DOMAIN icon_type_map
        THEN stage2_root.doc.icon = StockIcon(t)
        ELSE stage2_root.doc.icon = <<>>

\* C6 witness: a baseline synthesized for a type of the table
C6_Witness ==
    /\ stage2_root.kind = "doc"
    /\ env.APPSTREAM_COMPONENT_TYPE = "driver"
    /\ stage2_root.doc.icon = << [type |-> "stock", text |-> "computer"] >>

-----------------------------------------------------------------------------
(* A document merged into itself (specification SpecMerge) *)

MaxMerges == 2

MergeDocs ==
    { [EmptyComponent EXCEPT !.id = <<"org.example.App">>, !.name = n, !.icon = i,
                             !.url = u, !.releases = r, !.provides = p,
                             !.launchable = l] :
        n \in { <<>>, <<"App">> },
        i \in { <<>>, << [type |-> "stock", text |-> "terminal"] >> },
        u \in { <<>>,
                << [type |-> "homepage", text |-> "https://example.org"],
                   [type |-> "vcs-browser", text |-> "https://example.org"] >> },
        r \in { <<>>, << [version |-> "1.0"], [version |-> "1.1"] >> },
        p \in { <<>>, << [type |-> "binary", text |-> "app"] >>,
                << [type |-> "binary", text |-> "app"],
                   [type |-> "library", text |-> "libfoo.so.1"] >> },
        l \in { <<>>, << [type |-> "desktop-id", text |-> "app.desktop"] >> } }

InitMerge ==
    /\ env = BaseEnv
    /\ fs = {}
    /\ override = NoFile
    /\ existing = NoFile
    /\ base_root \in MergeDocs
    /\ stage2_root = NoFile
    /\ pc = "merge"
    /\ completed = <<>>
    /\ error = None
    /\ output = NoFile
    /\ remaining = {}
    /\ cur = NoCur
    /\ scans = 0
    /\ start_doc = base_root
    /\ applied = 0

\* merge_xml(D, D)
MergeSelf ==
    /\ pc = "merge"
    /\ applied < MaxMerges
    /\ base_root' = merge_xml(base_root, base_root)
    /\ applied' = applied + 1
    /\ UNCHANGED <<env, fs, override, existing, stage2_root, pc, completed, error,
                   output, remaining, cur, scans, start_doc>>

SpecMerge == InitMerge /\ [][MergeSelf]_vars

====
